---- MODULE Spec2Model ----
(***************************************************************************)
(* A model of src/markdown/confluence-to-md.py (class ConfluenceExporter): *)
(* the name sanitizer, the attachment materializer, the path resolver,     *)
(* the reference rewriter and the export loop.                              *)
(*                                                                         *)
(* Text is modelled as a sequence of characters, a character being a       *)
(* one-element string; "^A" stands for U+0001, a character that is neither *)
(* whitespace nor printable.                                                *)
(***************************************************************************)
EXTENDS Integers, Sequences, FiniteSets, TLC

VARIABLES
    \* sanitize_filename applied twice
    sanPc, sanName, sanOnce, sanTwice,
    \* download_attachment: the attachment record, the destination directory,
    \* the file system and the value returned
    attPc, attTitle, attDownload, attSaveDir, attDirs, attFiles, attResult,
    \* build_id_to_path_map: the page listing and the map built from it
    mapPc, mapPages, mapping,
    \* rewrite_content: the call's arguments, the markup as parsed, the tree
    \* being rewritten and the text returned
    rwPc, rwCtx, rwInput, rwTree, rwOut,
    \* run: the position in the loop, the listing, the path map, whether
    \* pypandoc is enabled and importable, the local `success` of the
    \* conversion, the directories and files on disk (a file has a content
    \* state), the pages whose processing began and those that failed
    runPc, runIdx, runPages, runMap, runPypandoc, runSuccess, runDirs, runFiles,
    runAttempted, runFailed

sanVars == <<sanPc, sanName, sanOnce, sanTwice>>
attVars == <<attPc, attTitle, attDownload, attSaveDir, attDirs, attFiles, attResult>>
mapVars == <<mapPc, mapPages, mapping>>
rwVars == <<rwPc, rwCtx, rwInput, rwTree, rwOut>>
runVars ==
    <<runPc, runIdx, runPages, runMap, runPypandoc, runSuccess, runDirs, runFiles,
      runAttempted, runFailed>>

vars == <<sanVars, attVars, mapVars, rwVars, runVars>>

(***************************************************************************)
(* Text helpers.                                                           *)
(***************************************************************************)

\* All sequences over S of length 0..n.
SeqsUpTo(S, n) == UNION {[1..k -> S] : k \in 0..n}

\* The sequence made of n copies of c.
Repeat(c, n) == [i \in 1..n |-> c]

\* s[:n]
Take(s, n) == IF Len(s) <= n THEN s ELSE SubSeq(s, 1, n)

\* str.isspace() of one character.
IsSpace(c) == c = " "

\* str.isprintable() of one character: the ASCII space is printable, U+0001 is not.
IsPrintable(c) == c # "^A"

\* The characters re.sub(r'[\\/*?:"<>|]', ...) matches.
Reserved == {"\\", "/", "*", "?", ":", "\"", "<", ">", "|"}

RECURSIVE LStrip(_)
LStrip(s) == IF s # <<>> /\ IsSpace(Head(s)) THEN LStrip(Tail(s)) ELSE s

RECURSIVE RStrip(_)
RStrip(s) ==
    IF s # <<>> /\ IsSpace(s[Len(s)]) THEN RStrip(SubSeq(s, 1, Len(s) - 1)) ELSE s

\* str.strip()
Strip(s) == RStrip(LStrip(s))

\* re.sub(r'[\\/*?:"<>|]', "_", name)
ReplaceReserved(s) == [i \in 1..Len(s) |-> IF s[i] \in Reserved THEN "_" ELSE s[i]]

\* "".join(c for c in name if c.isprintable())
DropNonPrintable(s) == SelectSeq(s, IsPrintable)

(***************************************************************************)
(* sanitize_filename                                                       *)
(***************************************************************************)

\* name[:200]
NameLimit == 200

\* A sanitizer that forgets to replace the reserved characters.
sanitize_keeps_reserved(name) == Take(DropNonPrintable(Strip(name)), NameLimit)

sanitize_filename(name) ==
    Take(DropNonPrintable(ReplaceReserved(Strip(name))), NameLimit)

(***************************************************************************)
(* The parts of the state a specification does not use stay at rest.       *)
(***************************************************************************)

\* The absent value: a text no real text equals.
None == <<"None">>

SanIdle ==
    /\ sanPc = "idle"
    /\ sanName = <<>>
    /\ sanOnce = <<>>
    /\ sanTwice = <<>>

AttIdle ==
    /\ attPc = "idle"
    /\ attTitle = <<>>
    /\ attDownload = None
    /\ attSaveDir = <<>>
    /\ attDirs = {}
    /\ attFiles = {}
    /\ attResult = None

MapIdle ==
    /\ mapPc = "idle"
    /\ mapPages = <<>>
    /\ mapping = <<>>

RwIdle ==
    /\ rwPc = "idle"
    /\ rwCtx = <<>>
    /\ rwInput = <<>>
    /\ rwTree = <<>>
    /\ rwOut = <<>>

RunIdle ==
    /\ runPc = "idle"
    /\ runIdx = 0
    /\ runPages = <<>>
    /\ runMap = <<>>
    /\ runPypandoc = FALSE
    /\ runSuccess = FALSE
    /\ runDirs = {}
    /\ runFiles = <<>>
    /\ runAttempted = <<>>
    /\ runFailed = {}

(***************************************************************************)
(* Specification SpecSan: sanitize_filename applied to a name, then to its *)
(* own result.                                                             *)
(***************************************************************************)

\* Longest tail of a generated name.
MaxTail == 3

SanChars == {" ", "^A", "/", ".", "s"}

\* A name is a short text, or a long run of letters followed by a short text,
\* so that the truncation at NameLimit happens inside the short text.
LongPrefix == Repeat("s", NameLimit - 2)

SanNames ==
    LET tails == SeqsUpTo(SanChars, MaxTail)
    IN  tails \cup {LongPrefix \o t : t \in tails}

InitSan ==
    /\ sanPc = "start"
    /\ sanName \in SanNames
    /\ sanOnce = <<>>
    /\ sanTwice = <<>>
    /\ AttIdle
    /\ MapIdle
    /\ RwIdle
    /\ RunIdle

SanitizeOnce ==
    /\ sanPc = "start"
    /\ sanOnce' = sanitize_filename(sanName)
    /\ sanPc' = "once"
    /\ UNCHANGED <<sanName, sanTwice, attVars, mapVars, rwVars, runVars>>

SanitizeTwice ==
    /\ sanPc = "once"
    /\ sanTwice' = sanitize_filename(sanOnce)
    /\ sanPc' = "twice"
    /\ UNCHANGED <<sanName, sanOnce, attVars, mapVars, rwVars, runVars>>

NextSan == SanitizeOnce \/ SanitizeTwice

SpecSan == InitSan /\ [][NextSan]_vars

\* C5: sanitize_filename is idempotent: sanitizing a sanitized name changes nothing.
C5_Idempotent == sanPc = "twice" => sanTwice = sanOnce

(***************************************************************************)
(* posixpath, on texts.                                                    *)
(***************************************************************************)

\* The process's working directory, "/w".
Cwd == <<"/", "w">>

StartsWith(s, prefix) ==
    /\ Len(prefix) <= Len(s)
    /\ SubSeq(s, 1, Len(prefix)) = prefix

\* s.split("/"): the pieces between the separators, empty pieces included.
RECURSIVE SplitAcc(_, _, _)
SplitAcc(s, done, cur) ==
    IF s = <<>> THEN Append(done, cur)
    ELSE IF Head(s) = "/" THEN SplitAcc(Tail(s), Append(done, cur), <<>>)
    ELSE SplitAcc(Tail(s), done, Append(cur, Head(s)))

Split(s) == SplitAcc(s, <<>>, <<>>)

\* "/".join(comps)
RECURSIVE JoinSep(_)
JoinSep(comps) ==
    IF comps = <<>> THEN <<>>
    ELSE IF Len(comps) = 1 THEN comps[1]
    ELSE comps[1] \o <<"/">> \o JoinSep(Tail(comps))

\* posixpath.join(a, b)
PathJoin(a, b) ==
    IF StartsWith(b, <<"/">>) THEN b
    ELSE IF a = <<>> \/ a[Len(a)] = "/" THEN a \o b
    ELSE a \o <<"/">> \o b

\* posixpath.basename(p): what follows the last separator.
Basename(p) == LET comps == Split(p) IN comps[Len(comps)]

\* posixpath.dirname(p): what precedes the last separator, without trailing
\* separators unless it is made of separators only.
RECURSIVE RStripSep(_)
RStripSep(s) ==
    IF s # <<>> /\ s[Len(s)] = "/" THEN RStripSep(SubSeq(s, 1, Len(s) - 1)) ELSE s

Dirname(p) ==
    LET head == SubSeq(p, 1, Len(p) - Len(Basename(p)))
    IN  IF head # <<>> /\ RStripSep(head) # <<>> THEN RStripSep(head) ELSE head

\* The loop of posixpath.normpath over the components of a path.
RECURSIVE NormComps(_, _, _)
NormComps(comps, new, rooted) ==
    IF comps = <<>> THEN new
    ELSE
        LET comp == Head(comps)
            rest == Tail(comps)
        IN  IF comp = <<>> \/ comp = <<".">> THEN NormComps(rest, new, rooted)
            ELSE IF \/ comp # <<".", ".">>
                    \/ (~rooted /\ new = <<>>)
                    \/ (new # <<>> /\ new[Len(new)] = <<".", ".">>)
                 THEN NormComps(rest, Append(new, comp), rooted)
            ELSE IF new # <<>> THEN NormComps(rest, SubSeq(new, 1, Len(new) - 1), rooted)
            ELSE NormComps(rest, new, rooted)

\* posixpath.normpath: exactly two leading separators are kept, any other
\* number of them is one.
InitialSlashes(p) ==
    IF ~StartsWith(p, <<"/">>) THEN 0
    ELSE IF StartsWith(p, <<"/", "/">>) /\ ~StartsWith(p, <<"/", "/", "/">>) THEN 2
    ELSE 1

Normpath(p) ==
    LET slashes == InitialSlashes(p)
        body == JoinSep(NormComps(Split(p), <<>>, slashes > 0))
        path == Repeat("/", slashes) \o body
    IN  IF path = <<>> THEN <<".">> ELSE path

\* posixpath.abspath
Abspath(p) == IF StartsWith(p, <<"/">>) THEN Normpath(p) ELSE Normpath(PathJoin(Cwd, p))

\* The components of an absolute normalised path: the place it names.
Place(p) == SelectSeq(Split(Abspath(p)), LAMBDA c : c # <<>>)

\* place a lies strictly below the directory d
StrictlyInside(a, d) == Len(a) > Len(d) /\ SubSeq(a, 1, Len(d)) = d

\* os.makedirs(path, exist_ok=True): the directory and all its parents exist.
MakeDirs(dirs, p) == dirs \cup {SubSeq(Place(p), 1, k) : k \in 0..Len(Place(p))}

\* The kernel's walk along the directories of a path, from the place `at`:
\* the place reached, or <<None>> when a directory on the way does not exist.
RECURSIVE Walk(_, _, _)
Walk(dirs, at, comps) ==
    IF comps = <<>> THEN at
    ELSE
        LET comp == Head(comps)
            to == IF comp = <<>> \/ comp = <<".">> THEN at
                  ELSE IF comp = <<".", ".">>
                       THEN (IF at = <<>> THEN at ELSE SubSeq(at, 1, Len(at) - 1))
                  ELSE Append(at, comp)
        IN  IF to \in dirs THEN Walk(dirs, to, Tail(comps)) ELSE <<None>>

\* open(path, "wb"): the place of the file it creates, or <<None>> when it
\* raises (the path names a directory, or lies in a directory that does not exist).
OpenForWrite(dirs, path) ==
    LET comps == Split(path)
        last == comps[Len(comps)]
        from == IF StartsWith(path, <<"/">>) THEN <<>> ELSE Place(<<>>)
        dir == Walk(dirs, from, SubSeq(comps, 1, Len(comps) - 1))
    IN  IF dir = <<None>> \/ last \in {<<>>, <<".">>, <<".", ".">>} THEN <<None>>
        ELSE IF Append(dir, last) \in dirs THEN <<None>>
        ELSE Append(dir, last)

(***************************************************************************)
(* download_attachment                                                     *)
(***************************************************************************)

\* What download_attachment does with one attachment record: the directories
\* and files afterwards and the value returned. `net` is what the transfer
\* does: "http_error" (raise_for_status raises), "stream_error" (the body
\* breaks off after the file was opened) or "ok".
download_attachment(title, dl_path, save_dir, dirs, files, net) ==
    IF dl_path = None THEN [dirs |-> dirs, files |-> files, result |-> None]
    ELSE
        LET filename == sanitize_filename(IF title # <<>> THEN title ELSE Basename(dl_path))
            dirs2 == MakeDirs(dirs, save_dir)
            final_path == PathJoin(save_dir, filename)
            created == OpenForWrite(dirs2, final_path)
        IN  IF ~StartsWith(Abspath(final_path), Abspath(save_dir))
            THEN [dirs |-> dirs2, files |-> files, result |-> None]
            ELSE IF net = "http_error" \/ created = <<None>>
            THEN [dirs |-> dirs2, files |-> files, result |-> None]
            ELSE IF net = "stream_error"
            THEN [dirs |-> dirs2, files |-> files \cup {created}, result |-> None]
            ELSE [dirs |-> dirs2, files |-> files \cup {created}, result |-> final_path]

(***************************************************************************)
(* Specification SpecAtt: download_attachment on one attachment record.    *)
(***************************************************************************)

\* Longest attachment title.
MaxTitleLen == 4

AttChars == {" ", "^A", "/", ".", "s"}

\* No title (the empty text), or any short text.
AttTitles == SeqsUpTo(AttChars, MaxTitleLen)

\* No download locator, or one whose last component is a name, "..", or empty.
AttDownloads ==
    {None, <<"/", "d", "/", "s">>, <<"/", "d", "/", ".", ".">>, <<"/", "d", "/">>}

\* Destination directories: relative to the working directory, or absolute.
AttSaveDirs == {<<"o", "/", "s">>, <<"/", "s">>}

InitAtt ==
    /\ attPc = "start"
    /\ attTitle \in AttTitles
    /\ attDownload \in AttDownloads
    /\ attSaveDir \in AttSaveDirs
    /\ attDirs = {<<>>, Place(<<>>)}
    /\ attFiles = {}
    /\ attResult = None
    /\ SanIdle
    /\ MapIdle
    /\ RwIdle
    /\ RunIdle

DownloadAttachment ==
    /\ attPc = "start"
    /\ \E net \in {"http_error", "stream_error", "ok"} :
          LET r == download_attachment(attTitle, attDownload, attSaveDir,
                                       attDirs, attFiles, net)
          IN  /\ attDirs' = r.dirs
              /\ attFiles' = r.files
              /\ attResult' = r.result
    /\ attPc' = "done"
    /\ UNCHANGED <<attTitle, attDownload, attSaveDir, sanVars, mapVars, rwVars, runVars>>

NextAtt == DownloadAttachment

SpecAtt == InitAtt /\ [][NextAtt]_vars

\* C2: download_attachment writes no file outside the destination directory:
\* every file it created lies strictly inside save_dir, and a returned path
\* names such a file.
C2_Contained ==
    /\ \A f \in attFiles : StrictlyInside(f, Place(attSaveDir))
    /\ attResult # None =>
          /\ StrictlyInside(Place(attResult), Place(attSaveDir))
          /\ Place(attResult) \in attFiles

\* A title with separators and dots was downloaded and stored.
C2_Witness ==
    /\ attPc = "done"
    /\ attResult # None
    /\ \E i, j \in 1..Len(attTitle) : attTitle[i] = "/" /\ attTitle[j] = "."

\* The title ".." went through download_attachment.
C2_DotDotSeen == attPc = "done" /\ attTitle = <<".", ".">> /\ attDownload # None

(***************************************************************************)
(* build_id_to_path_map                                                    *)
(*                                                                         *)
(* A page is a record [id, title, ancestors]; a title that is missing is   *)
(* None, and ancestors is the sequence of the ancestors' titles, root      *)
(* first. Words that the code handles as a whole (".md", "page_") are one  *)
(* symbol of a text.                                                        *)
(***************************************************************************)

\* os.path.join(*parts) if parts else ""
RECURSIVE JoinAll(_)
JoinAll(parts) ==
    IF parts = <<>> THEN <<>>
    ELSE IF Len(parts) = 1 THEN parts[1]
    ELSE PathJoin(parts[1], JoinAll(Tail(parts)))

\* The values of a map.
Values(m) == {m[k] : k \in DOMAIN m}

\* m with m[k] = v, k added to the domain if new.
Put(m, k, v) == [x \in DOMAIN m \cup {k} |-> IF x = k THEN v ELSE m[x]]

\* [sanitize_filename(a.get("title", "")) for a in ancestors if a.get("title")]
AncestorParts(ancestors) ==
    LET named == SelectSeq(ancestors, LAMBDA t : t # None /\ t # <<>>)
    IN  [i \in 1..Len(named) |-> sanitize_filename(named[i])]

\* The candidate path of a page: its ancestors' directories and "<title>.md".
CandidatePath(p) ==
    LET title == sanitize_filename(IF p.title # None THEN p.title
                                   ELSE <<"page_">> \o p.id)
    IN  PathJoin(JoinAll(AncestorParts(p.ancestors)), title \o <<".md">>)

\* The path used on a conflict: "<title>-<id>.md" in the same directory.
SuffixedPath(p) ==
    LET title == sanitize_filename(IF p.title # None THEN p.title
                                   ELSE <<"page_">> \o p.id)
    IN  PathJoin(JoinAll(AncestorParts(p.ancestors)),
                 title \o <<"-">> \o p.id \o <<".md">>)

\* One round of the loop of build_id_to_path_map.
MapOne(m, p) ==
    Put(m, p.id, IF CandidatePath(p) \in Values(m) THEN SuffixedPath(p)
                 ELSE CandidatePath(p))

RECURSIVE MapFrom(_, _)
MapFrom(m, pages) ==
    IF pages = <<>> THEN m ELSE MapFrom(MapOne(m, Head(pages)), Tail(pages))

build_id_to_path_map(all_pages) == MapFrom(<<>>, all_pages)

(***************************************************************************)
(* Specification SpecMap: build_id_to_path_map on a listing of pages with  *)
(* distinct ids.                                                           *)
(***************************************************************************)

\* Number of pages of the listing.
NumPages == 3

\* The id of the i-th page of a listing: "1", "2", ...
PageIds == <<<<"1">>, <<"2">>, <<"3">>, <<"4">>>>

MapTitles == {None, <<"a">>, <<"b">>, <<"a", "/", "b">>, <<"a", "-", "3">>}

MapAncestors == {<<>>, <<<<"a">>>>, <<None, <<"b">>>>}

MapListings ==
    {[i \in 1..NumPages |-> [id |-> PageIds[i], title |-> t[i], ancestors |-> a[i]]] :
        t \in [1..NumPages -> MapTitles], a \in [1..NumPages -> MapAncestors]}

InitMap ==
    /\ mapPc = "start"
    /\ mapPages \in MapListings
    /\ mapping = <<>>
    /\ SanIdle
    /\ AttIdle
    /\ RwIdle
    /\ RunIdle

BuildMap ==
    /\ mapPc = "start"
    /\ mapping' = build_id_to_path_map(mapPages)
    /\ mapPc' = "mapped"
    /\ UNCHANGED <<mapPages, sanVars, attVars, rwVars, runVars>>

NextMap == BuildMap

SpecMap == InitMap /\ [][NextMap]_vars

\* C1: the map build_id_to_path_map returns is injective: no two distinct
\* page ids have the same path.
C1_Injective ==
    mapPc = "mapped" =>
        \A i, j \in DOMAIN mapping : i # j => mapping[i] # mapping[j]

(***************************************************************************)
(* posixpath.relpath and posixpath.splitext                                *)
(***************************************************************************)

RECURSIVE CommonLen(_, _)
CommonLen(a, b) ==
    IF a # <<>> /\ b # <<>> /\ Head(a) = Head(b) THEN 1 + CommonLen(Tail(a), Tail(b))
    ELSE 0

\* posixpath.relpath(path, start), for a path that is not empty.
Relpath(path, start) ==
    LET start_list == Place(start)
        path_list == Place(path)
        i == CommonLen(start_list, path_list)
        rel_list == [k \in 1..(Len(start_list) - i) |-> <<".", ".">>]
                    \o SubSeq(path_list, i + 1, Len(path_list))
    IN  IF rel_list = <<>> THEN <<".">> ELSE JoinSep(rel_list)

\* posixpath.splitext(name)[0] of a file name: the extension ".md" is one
\* symbol, and a name that is only the extension has no extension.
Splitext(name) ==
    IF Len(name) > 1 /\ name[Len(name)] = ".md" THEN SubSeq(name, 1, Len(name) - 1)
    ELSE name

(***************************************************************************)
(* The regular expressions of rewrite_content, on texts in which the       *)
(* words "pageId=", "download" and "attachments" are one symbol each.      *)
(***************************************************************************)

Digits == {"0", "1", "2", "3", "4", "5", "6", "7", "8", "9"}

Min(S) == CHOOSE x \in S : \A y \in S : x <= y

\* The longest run of symbols outside `stop` that starts at s[j].
RECURSIVE RunNot(_, _, _)
RunNot(s, j, stop) ==
    IF j > Len(s) \/ s[j] \in stop THEN <<>>
    ELSE <<s[j]>> \o RunNot(s, j + 1, stop)

\* The longest run of digits that starts at s[j].
RECURSIVE DigitsRun(_, _)
DigitsRun(s, j) ==
    IF j > Len(s) \/ s[j] \notin Digits THEN <<>>
    ELSE <<s[j]>> \o DigitsRun(s, j + 1)

\* re.search(r'pageId=(\d+)', href): group 1 of the leftmost match, or None.
PageIdMatch(s) ==
    LET at == {i \in 1..(Len(s) - 1) : s[i] = "pageId=" /\ s[i + 1] \in Digits}
    IN  IF at = {} THEN None ELSE DigitsRun(s, Min(at) + 1)

\* The file name a match of the attachment pattern at s[i] captures, or <<>>.
AttachmentAt(s, i) ==
    LET lead == <<"/", "download", "/", "attachments", "/">>
        owner == RunNot(s, i + 5, {"/"})
        j == i + 5 + Len(owner)
    IN  IF /\ i + 4 <= Len(s)
           /\ SubSeq(s, i, i + 4) = lead
           /\ owner # <<>>
           /\ j <= Len(s)
           /\ s[j] = "/"
        THEN RunNot(s, j + 1, {"/", "?", "#"})
        ELSE <<>>

\* re.search(r'/download/attachments/[^/]+/([^/?#]+)', href): group 1 of the
\* leftmost match, or None.
AttachmentMatch(s) ==
    LET at == {i \in 1..Len(s) : AttachmentAt(s, i) # <<>>}
    IN  IF at = {} THEN None ELSE AttachmentAt(s, Min(at))

(***************************************************************************)
(* The document tree BeautifulSoup builds.                                 *)
(*                                                                         *)
(* A node is a record [tag, val, alt, text, kids]. A string has the tag    *)
(* "#text" and its text; an element has its children and two attributes:   *)
(* val is href of a, src of img, ri:filename of ri:attachment, ri:value of *)
(* ri:url and ri:page-id of ri:page; alt is ri:content-title of ri:page.   *)
(* An attribute that is not there is None. A node is named by its position *)
(* in the tree, the sequence of child indices from the root: replace_with  *)
(* puts one node where one node was, so positions are stable.              *)
(***************************************************************************)

Txt(t) == [tag |-> "#text", val |-> None, alt |-> None, text |-> t, kids |-> <<>>]

El(tag, val, alt, kids) ==
    [tag |-> tag, val |-> val, alt |-> alt, text |-> <<>>, kids |-> kids]

\* What find() returns when nothing matches.
NoNode == [tag |-> "#none", val |-> None, alt |-> None, text |-> <<>>, kids |-> <<>>]

\* The root of a parsed document.
Soup(kids) == El("[document]", None, None, kids)

IsAc(n) == n.tag \in {"ac:image", "ac:link", "ac:structured-macro", "ac:rich-text-body"}

IsRi(n) == n.tag \in {"ri:attachment", "ri:url", "ri:page"}

RECURSIVE NodeAt(_, _)
NodeAt(n, p) == IF p = <<>> THEN n ELSE NodeAt(n.kids[Head(p)], Tail(p))

\* The tree with the node at position p replaced by new (replace_with).
RECURSIVE ReplaceAt(_, _, _)
ReplaceAt(n, p, new) ==
    IF p = <<>> THEN new
    ELSE [n EXCEPT !.kids = [n.kids EXCEPT ![Head(p)] =
                                ReplaceAt(n.kids[Head(p)], Tail(p), new)]]

\* The positions of the descendants of n, in document order.
RECURSIVE Paths(_, _)
RECURSIVE PathsFrom(_, _, _)
PathsFrom(n, at, i) ==
    IF i > Len(n.kids) THEN <<>>
    ELSE <<Append(at, i)>> \o Paths(n.kids[i], Append(at, i)) \o PathsFrom(n, at, i + 1)

Paths(n, at) == PathsFrom(n, at, 1)

\* What re.compile(r'^ac:') matches.
MacroMatch(n) == IsAc(n)

\* What the arguments of a find_all select: a tag name, a tag with an
\* attribute (href=True, src=True), or the names that start with "ac:".
Selects(sel, n) ==
    CASE sel = "^ac:" -> MacroMatch(n)
      [] sel = "a[href]" -> n.tag = "a" /\ n.val # None
      [] sel = "img[src]" -> n.tag = "img" /\ n.val # None
      [] OTHER -> n.tag = sel

\* find_all: the positions of the selected descendants, in document order.
FindAll(n, sel) == SelectSeq(Paths(n, <<>>), LAMBDA p : Selects(sel, NodeAt(n, p)))

\* find(tag): the first descendant with that tag, or NoNode.
Find(n, tag) ==
    LET found == FindAll(n, tag)
    IN  IF found = <<>> THEN NoNode ELSE NodeAt(n, found[1])

\* The strings below n (n itself if it is a string), in document order.
Strings(n) ==
    IF n.tag = "#text" THEN <<n.text>>
    ELSE LET at == FindAll(n, "#text")
         IN  [i \in 1..Len(at) |-> NodeAt(n, at[i]).text]

RECURSIVE JoinWith(_, _)
JoinWith(texts, sep) ==
    IF texts = <<>> THEN <<>>
    ELSE IF Len(texts) = 1 THEN texts[1]
    ELSE texts[1] \o sep \o JoinWith(Tail(texts), sep)

\* get_text(separator)
GetText(n, sep) == JoinWith(Strings(n), sep)

\* Position p lies below one of the positions of `gone`.
Below(p, gone) ==
    \E g \in gone : Len(g) < Len(p) /\ SubSeq(p, 1, Len(g)) = g

\* A value Python takes for true: there, and not empty.
Truthy(v) == v # None /\ v # <<>>

(***************************************************************************)
(* rewrite_content                                                         *)
(*                                                                         *)
(* ctx is the call's arguments: [page_id, id_to_path, att_dir].            *)
(***************************************************************************)

\* What a lookup of a missing key raises.
KeyError == <<"KeyError">>

\* id_to_path[k]
Lookup(m, k) == IF k \in DOMAIN m THEN m[k] ELSE KeyError

\* id_to_path.get(k)
Get(m, k) == IF k \in DOMAIN m THEN m[k] ELSE None

\* The node an exception leaves in place of the element being rewritten.
Raised == [tag |-> "#raised", val |-> None, alt |-> None, text |-> <<>>, kids |-> <<>>]

\* 1. Images: what an ac:image element is replaced with (itself: it stays).
ImageRewrite(ac_image, ctx) ==
    LET ri == Find(ac_image, "ri:attachment")
        ri_url == Find(ac_image, "ri:url")
    IN  IF ri # NoNode /\ Truthy(ri.val)
        THEN El("img", PathJoin(ctx.att_dir, sanitize_filename(ri.val)), None, <<>>)
        ELSE IF ri_url # NoNode /\ Truthy(ri_url.val)
        THEN El("img", ri_url.val, None, <<>>)
        ELSE ac_image

\* A test of the link target that forgets to look the target up in the map.
LinkTargetKnown_unchecked(target_pid, id_to_path) == Truthy(target_pid)

\* target_pid and target_pid in id_to_path
LinkTargetKnown(target_pid, id_to_path) ==
    Truthy(target_pid) /\ target_pid \in DOMAIN id_to_path

\* The href of an internal page link: the target's path seen from the
\* directory of the current page, or the bare file name when the current
\* page has no path.
LinkHref(target_path, ctx) ==
    LET curr_path == Get(ctx.id_to_path, ctx.page_id)
    IN  IF Truthy(curr_path) THEN Relpath(target_path, Dirname(curr_path))
        ELSE Basename(target_path)

\* 2. Internal page links: what an ac:link element is replaced with.
LinkRewrite(ac_link, ctx) ==
    LET ri_page == Find(ac_link, "ri:page")
        target_pid == IF Truthy(ri_page.val) THEN ri_page.val ELSE ri_page.alt
        text == GetText(ac_link, <<>>)
        target_path == Lookup(ctx.id_to_path, target_pid)
    IN  IF ri_page = NoNode THEN ac_link
        ELSE IF LinkTargetKnown(target_pid, ctx.id_to_path)
        THEN IF target_path = KeyError THEN Raised
             ELSE El("a", LinkHref(target_path, ctx), None,
                     <<Txt(IF Strip(text) = <<>>
                           THEN Splitext(Basename(target_path)) ELSE text)>>)
        ELSE Txt(text)

\* The href the page-id rule leaves on a hyperlink.
PageIdHref(href, ctx) ==
    LET target_pid == PageIdMatch(href)
        curr_path == Get(ctx.id_to_path, ctx.page_id)
    IN  IF target_pid # None /\ target_pid \in DOMAIN ctx.id_to_path
        THEN IF Truthy(curr_path)
             THEN Relpath(ctx.id_to_path[target_pid], Dirname(curr_path))
             ELSE ctx.id_to_path[target_pid]
        ELSE None

\* The href or src the attachment-download rule leaves.
AttachmentHref(href, ctx) ==
    IF AttachmentMatch(href) # None
    THEN PathJoin(ctx.att_dir, sanitize_filename(AttachmentMatch(href)))
    ELSE None

\* 3. Standard links: both patterns are matched against the href read at the
\* top of the loop body; the page-id rule assigns first, the attachment rule
\* assigns last.
AnchorHref(href, ctx) ==
    IF AttachmentHref(href, ctx) # None THEN AttachmentHref(href, ctx)
    ELSE IF PageIdHref(href, ctx) # None THEN PageIdHref(href, ctx)
    ELSE href

\* The same two rules applied in the other order.
AnchorHrefSwapped(href, ctx) ==
    IF PageIdHref(href, ctx) # None THEN PageIdHref(href, ctx)
    ELSE IF AttachmentHref(href, ctx) # None THEN AttachmentHref(href, ctx)
    ELSE href

AnchorRewrite(a, ctx) == [a EXCEPT !.val = AnchorHref(a.val, ctx)]

\* 4. Standard images pointing to attachments.
ImgRewrite(img, ctx) ==
    IF AttachmentHref(img.val, ctx) # None
    THEN [img EXCEPT !.val = AttachmentHref(img.val, ctx)]
    ELSE img

\* 5. Clean macros: the element becomes its text (get_text does not raise,
\* so decompose() is never reached).
MacroRewrite(macro, ctx) == Txt(GetText(macro, <<" ">>))

\* The elements a step visits: the arguments of its find_all.
StepSelector(step) ==
    CASE step = "images" -> "ac:image"
      [] step = "links" -> "ac:link"
      [] step = "anchors" -> "a[href]"
      [] step = "imgs" -> "img[src]"
      [] step = "macros" -> "^ac:"

StepRewrite(step, n, ctx) ==
    CASE step = "images" -> ImageRewrite(n, ctx)
      [] step = "links" -> LinkRewrite(n, ctx)
      [] step = "anchors" -> AnchorRewrite(n, ctx)
      [] step = "imgs" -> ImgRewrite(n, ctx)
      [] step = "macros" -> MacroRewrite(n, ctx)

\* The loop of a step over the elements its find_all returned. An element
\* below one that was replaced earlier in the loop is no longer in the tree:
\* rewriting it changes nothing of the document. An exception ends the loop.
RECURSIVE StepLoop(_, _, _, _, _)
StepLoop(step, tree, paths, gone, ctx) ==
    IF paths = <<>> THEN tree
    ELSE IF Below(Head(paths), gone) THEN StepLoop(step, tree, Tail(paths), gone, ctx)
    ELSE
        LET old == NodeAt(tree, Head(paths))
            new == StepRewrite(step, old, ctx)
        IN  IF new = Raised THEN ReplaceAt(tree, Head(paths), Raised)
            ELSE StepLoop(step, ReplaceAt(tree, Head(paths), new), Tail(paths),
                          IF new.tag # old.tag THEN gone \cup {Head(paths)} ELSE gone,
                          ctx)

ApplyStep(step, tree, ctx) ==
    StepLoop(step, tree, FindAll(tree, StepSelector(step)), {}, ctx)

\* An exception was raised in the tree's rewriting.
HasRaised(tree) == FindAll(tree, "#raised") # <<>>

(***************************************************************************)
(* str(soup)                                                               *)
(***************************************************************************)

\* The minimal formatter: the three special characters of a string.
Escape(t) ==
    LET One(c) == IF c = "<" THEN "&lt;" ELSE IF c = ">" THEN "&gt;"
                  ELSE IF c = "&" THEN "&amp;" ELSE c
    IN  [i \in 1..Len(t) |-> One(t[i])]

\* name="value"
Attr(name, v) == IF v = None THEN <<>> ELSE <<" ", name, "=\"">> \o v \o <<"\"">>

Attrs(n) ==
    CASE n.tag = "a" -> Attr("href", n.val)
      [] n.tag = "img" -> Attr("src", n.val)
      [] n.tag = "ri:attachment" -> Attr("ri:filename", n.val)
      [] n.tag = "ri:url" -> Attr("ri:value", n.val)
      [] n.tag = "ri:page" -> Attr("ri:page-id", n.val) \o Attr("ri:content-title", n.alt)
      [] OTHER -> <<>>

\* Elements written as <tag/>.
IsVoid(n) == n.tag = "img" \/ (IsRi(n) /\ n.kids = <<>>)

RECURSIVE Serialize(_)
RECURSIVE SerializeKids(_, _)
SerializeKids(n, i) ==
    IF i > Len(n.kids) THEN <<>> ELSE Serialize(n.kids[i]) \o SerializeKids(n, i + 1)

Serialize(n) ==
    IF n.tag = "#text" THEN Escape(n.text)
    ELSE IF n.tag = "[document]" THEN SerializeKids(n, 1)
    ELSE IF IsVoid(n) THEN <<"<", n.tag>> \o Attrs(n) \o <<"/>">>
    ELSE <<"<", n.tag>> \o Attrs(n) \o <<">">> \o SerializeKids(n, 1)
         \o <<"</", n.tag, ">">>

(***************************************************************************)
(* Specification SpecRw: rewrite_content on one page's markup, with the    *)
(* path map of a small space.                                              *)
(***************************************************************************)

\* Number of top-level nodes of a generated document.
MaxNodes == 2

\* A space whose pages lie at x/A.md, x/y/B.md, pageId=1.md and
\* r/download/attachments/x/f.md.
RwListing ==
    << [id |-> <<"1">>, title |-> <<"A">>, ancestors |-> <<<<"x">>>>],
       [id |-> <<"2">>, title |-> <<"B">>, ancestors |-> <<<<"x">>, <<"y">>>>],
       [id |-> <<"3">>, title |-> <<"pageId=", "1">>, ancestors |-> <<>>],
       [id |-> <<"4">>, title |-> <<"f">>,
        ancestors |-> <<<<"r">>, <<"download">>, <<"attachments">>, <<"x">>>>] >>

\* The pages whose markup is rewritten: three of the space, and one the map
\* does not know.
RwOwners == {<<"1">>, <<"2">>, <<"3">>, <<"9">>}

\* att_rel_dir = f"_attachments/{pid}"
AttRelDir(pid) == <<"_attachments", "/">> \o pid

RiPage(id, title) == El("ri:page", id, title, <<>>)

PageLink(id, title, body) ==
    El("ac:link", None, None,
       IF body = None THEN <<RiPage(id, title)>> ELSE <<RiPage(id, title), Txt(body)>>)

Gone == <<"g", "o", "n", "e">>

NoteX == <<"Note:", " ", "X">>

\* The shapes a top-level node of a document is drawn from.
RwNodes ==
    { \* internal page links: resolved, with and without display text
      PageLink(<<"1">>, None, <<"s", "e", "e">>),
      PageLink(<<"2">>, None, <<"s", "e", "e">>),
      PageLink(<<"3">>, None, None),
      PageLink(<<"4">>, None, <<" ">>),
      PageLink(None, <<"2">>, None),
      \* internal page links: unknown target, no target
      PageLink(<<"9">>, None, Gone),
      PageLink(<<"9">>, None, None),
      PageLink(None, None, Gone),
      PageLink(None, <<>>, None),
      El("p", None, None, <<Txt(<<"s", "e", "e">>), PageLink(<<"9">>, None, Gone)>>),
      \* a link to an attachment: not a page link
      El("ac:link", None, None,
         <<El("ri:attachment", <<"f">>, None, <<>>), Txt(<<"f">>)>>),
      \* images
      El("ac:image", None, None, <<El("ri:attachment", <<"f", "/", "g">>, None, <<>>)>>),
      El("ac:image", None, None,
         <<El("ri:url", <<"h", "/", "download", "/", "attachments", "/", "1", "/", "f">>,
              None, <<>>)>>),
      El("ac:image", None, None, <<>>),
      El("img", <<"/", "download", "/", "attachments", "/", "1", "/", "f", "?", "v">>,
         None, <<>>),
      El("img", <<"h", "/", "i">>, None, <<>>),
      \* hyperlinks
      El("a", <<"/", "v", "?", "pageId=", "2">>, None, <<Txt(<<"B">>)>>),
      El("a", <<"/", "v", "?", "pageId=", "9">>, None, <<Txt(<<"B">>)>>),
      El("a", <<"/", "download", "/", "attachments", "/", "1", "/", "f", "?",
                "pageId=", "2">>, None, <<Txt(<<"f">>)>>),
      El("a", None, None, <<Txt(<<"B">>)>>),
      \* macros
      El("ac:structured-macro", None, None, <<Txt(NoteX)>>),
      El("ac:structured-macro", None, None,
         <<El("ac:rich-text-body", None, None,
              <<El("p", None, None, <<Txt(<<"Note:">>)>>),
                PageLink(<<"9">>, None, <<"X">>)>>)>>),
      \* a resource identifier outside any ac: element, and plain text
      El("ri:url", <<"h", "/", "i">>, None, <<>>),
      Txt(<<"<", "t", ">">>) }

RwDocs == {Soup(kids) : kids \in SeqsUpTo(RwNodes, MaxNodes)}

InitRw ==
    /\ rwPc = "parsed"
    /\ \E pid \in RwOwners :
          rwCtx = [page_id |-> pid,
                   id_to_path |-> build_id_to_path_map(RwListing),
                   att_dir |-> AttRelDir(pid)]
    /\ rwInput \in RwDocs
    /\ rwTree = rwInput
    /\ rwOut = <<>>
    /\ SanIdle
    /\ AttIdle
    /\ MapIdle
    /\ RunIdle

\* One of the five loops of rewrite_content, run to its end.
RwStep(from, step, to) ==
    /\ rwPc = from
    /\ rwTree' = ApplyStep(step, rwTree, rwCtx)
    /\ rwPc' = IF HasRaised(rwTree') THEN "raised" ELSE to
    /\ UNCHANGED <<rwCtx, rwInput, rwOut, sanVars, attVars, mapVars, runVars>>

RwImages == RwStep("parsed", "images", "images_done")

RwLinks == RwStep("images_done", "links", "links_done")

RwAnchors == RwStep("links_done", "anchors", "anchors_done")

RwImgs == RwStep("anchors_done", "imgs", "imgs_done")

RwMacros == RwStep("imgs_done", "macros", "macros_done")

\* return str(soup)
RwReturn ==
    /\ rwPc = "macros_done"
    /\ rwOut' = Serialize(rwTree)
    /\ rwPc' = "done"
    /\ UNCHANGED <<rwCtx, rwInput, rwTree, sanVars, attVars, mapVars, runVars>>

NextRw == RwImages \/ RwLinks \/ RwAnchors \/ RwImgs \/ RwMacros \/ RwReturn

SpecRw == InitRw /\ [][NextRw]_vars

(***************************************************************************)
(* Properties of rewrite_content.                                          *)
(***************************************************************************)

\* Text sub occurs in text s.
Contains(s, sub) ==
    \E i \in 1..(Len(s) - Len(sub) + 1) : SubSeq(s, i, i + Len(sub) - 1) = sub

\* The positions of the ancestors of position p that are ac: elements.
AcAncestors(tree, p) ==
    {SubSeq(p, 1, k) : k \in {j \in 1..(Len(p) - 1) : IsAc(NodeAt(tree, SubSeq(p, 1, j)))}}

\* The positions of the internal page links of the markup.
PageLinks(tree) ==
    {q \in {FindAll(tree, "ac:link")[i] : i \in 1..Len(FindAll(tree, "ac:link"))} :
        Find(NodeAt(tree, q), "ri:page") # NoNode}

\* The target an internal page link names: its page id, else its title.
TargetOf(link) ==
    LET ri_page == Find(link, "ri:page")
    IN  IF Truthy(ri_page.val) THEN ri_page.val ELSE ri_page.alt

\* The internal page links whose target has a path, and the others.
ResolvedLinks(tree, m) ==
    {q \in PageLinks(tree) :
        Truthy(TargetOf(NodeAt(tree, q))) /\ TargetOf(NodeAt(tree, q)) \in DOMAIN m}

DanglingLinks(tree, m) == PageLinks(tree) \ ResolvedLinks(tree, m)

\* The tags of the markup-specific elements.
MarkupTags ==
    {"ac:image", "ac:link", "ac:structured-macro", "ac:rich-text-body",
     "ri:attachment", "ri:url", "ri:page"}

\* The text has an opening or closing tag of a markup-specific element.
HasMarkupTag(out) ==
    \E i \in 1..(Len(out) - 1) : out[i] \in {"<", "</"} /\ out[i + 1] \in MarkupTags

\* C3: the href of every internal page link whose target and owner both have
\* a path leads, from the directory of the owner's path, to the target's path.
C3_RelativeHref ==
    (rwPc = "done" /\ rwCtx.page_id \in DOMAIN rwCtx.id_to_path) =>
        \A q \in ResolvedLinks(rwInput, rwCtx.id_to_path) :
            AcAncestors(rwInput, q) = {} =>
                LET a == NodeAt(rwTree, q)
                    owner == rwCtx.id_to_path[rwCtx.page_id]
                    target == rwCtx.id_to_path[TargetOf(NodeAt(rwInput, q))]
                IN  /\ a.tag = "a"
                    /\ Normpath(PathJoin(Dirname(owner), a.val)) = Normpath(target)

\* C4: an internal page link whose target has no path, or that names no
\* target, becomes plain text equal to its display text; no link element is
\* emitted for it, the rest of the page is rewritten and nothing is raised.
C4_DanglingIsText ==
    /\ rwPc # "raised"
    /\ rwPc = "done" =>
          /\ \A q \in DanglingLinks(rwInput, rwCtx.id_to_path) :
                LET shown == GetText(NodeAt(rwInput, q), <<>>)
                    above == AcAncestors(rwInput, q)
                    top == CHOOSE g \in above : \A h \in above : Len(g) <= Len(h)
                IN  /\ Contains(rwOut, Escape(shown))
                    /\ IF above = {} THEN NodeAt(rwTree, q) = Txt(shown)
                       ELSE /\ NodeAt(rwTree, top).tag = "#text"
                            /\ Contains(NodeAt(rwTree, top).text, shown)
          /\ \A i \in 1..Len(Paths(rwTree, <<>>)) : ~IsAc(NodeAt(rwTree, Paths(rwTree, <<>>)[i]))

\* A page with a dangling link that has display text, and a second node, was
\* rewritten to the end.
C4_Witness ==
    /\ rwPc = "done"
    /\ Len(rwInput.kids) = 2
    /\ rwInput.kids[1] = PageLink(<<"9">>, None, Gone)
    /\ rwInput.kids[2].tag = "ac:structured-macro"

\* C8: the text rewrite_content returns has no tag of an ac: or ri: element,
\* and the text an unknown element wrapped is in it.
C8_NoMarkupTags ==
    rwPc = "done" =>
        /\ ~HasMarkupTag(rwOut)
        /\ \A i \in 1..Len(rwInput.kids) :
              rwInput.kids[i] = El("ac:structured-macro", None, None, <<Txt(NoteX)>>)
                  => Contains(rwOut, NoteX)

\* C10: the rules do not interact: the href of an internal page link and the
\* src of an embedded image stay what their own rule made them, and a
\* hyperlink of both shapes gets the same href in either order of the rules.
C10_RulesIndependent ==
    rwPc = "done" =>
        /\ \A q \in ResolvedLinks(rwInput, rwCtx.id_to_path) :
              AcAncestors(rwInput, q) = {} =>
                  NodeAt(rwTree, q) = LinkRewrite(NodeAt(rwInput, q), rwCtx)
        /\ \A i \in 1..Len(rwInput.kids) :
              rwInput.kids[i].tag = "ac:image" /\ rwTree.kids[i].tag = "img" =>
                  rwTree.kids[i] = ImageRewrite(rwInput.kids[i], rwCtx)
        /\ \A i \in 1..Len(rwInput.kids) :
              rwInput.kids[i].tag = "a" /\ rwInput.kids[i].val # None =>
                  AnchorHref(rwInput.kids[i].val, rwCtx)
                      = AnchorHrefSwapped(rwInput.kids[i].val, rwCtx)

(***************************************************************************)
(* run and convert_html_to_markdown                                        *)
(*                                                                         *)
(* What the network, the converters and the disk do is an input of each    *)
(* step. A file on disk has a content state: "html" (the temporary input), *)
(* "markdown" (converted), "plain" (the strip-tags fallback), "partial" (a *)
(* write that broke off), "final" (front matter added) or "attachment".    *)
(***************************************************************************)

\* --output
OutputDir == <<"o">>

\* abs_md_path of a page
MdPath(m, pid) ==
    PathJoin(OutputDir, IF pid \in DOMAIN m THEN m[pid] ELSE pid \o <<".md">>)

\* tmp_html = dest_path + ".tmp.html"
TmpPath(dest_path) == dest_path \o <<".tmp.html">>

\* os.path.join(page_dir_abs, "_attachments", pid)
AttAbsPath(m, pid) ==
    PathJoin(PathJoin(Dirname(MdPath(m, pid)), <<"_attachments">>), pid)

\* The file at path exists.
Exists(files, path) == path \in DOMAIN files

\* os.remove(path)
Remove(files, path) == [x \in DOMAIN files \ {path} |-> files[x]]

\* The for loop moves on: to the next page of the listing, or out of the loop.
NextPage(idx, pages) ==
    IF idx < Len(pages) THEN [pc |-> "fetch", idx |-> idx + 1]
    ELSE [pc |-> "done", idx |-> idx]

\* A handler that logs the error and lets it go on up, out of run.
Except_reraise(idx, pages) == [pc |-> "crashed", idx |-> idx]

\* except Exception: the error is logged and the loop moves on.
Except(idx, pages) == NextPage(idx, pages)

\* The id of the page being processed.
CurId == runPages[runIdx].id

CurMd == MdPath(runMap, CurId)

\* The loop goes where `to` says; a page entered is a page attempted.
Goto(to) ==
    /\ runPc' = to.pc
    /\ runIdx' = to.idx
    /\ runAttempted' = IF to.pc = "fetch"
                       THEN Append(runAttempted, runPages[to.idx].id)
                       ELSE runAttempted

\* A step of the current page raised: the page has failed.
PageFails ==
    /\ Goto(Except(runIdx, runPages))
    /\ runFailed' = runFailed \cup {CurId}

\* A step of the current page went through.
StepTo(pc) ==
    /\ runPc' = pc
    /\ UNCHANGED <<runIdx, runAttempted, runFailed>>

\* ensure_dir(output_dir); fetch_all_pages(); build_id_to_path_map(all_pages)
RunFetchListing ==
    /\ runPc = "start"
    /\ \E ok \in BOOLEAN :
          IF ok
          THEN /\ runMap' = build_id_to_path_map(runPages)
               /\ Goto(NextPage(0, runPages))
          ELSE /\ runPc' = "aborted"
               /\ UNCHANGED <<runMap, runIdx, runAttempted>>
    /\ runDirs' = MakeDirs(runDirs, OutputDir)
    /\ UNCHANGED <<runPages, runPypandoc, runSuccess, runFiles, runFailed>>
    /\ UNCHANGED <<sanVars, attVars, mapVars, rwVars>>

\* fetch_page_details(pid)
RunFetchDetails ==
    /\ runPc = "fetch"
    /\ \E ok \in BOOLEAN : IF ok THEN StepTo("dirs") ELSE PageFails
    /\ UNCHANGED <<runPages, runMap, runPypandoc, runSuccess, runDirs, runFiles>>
    /\ UNCHANGED <<sanVars, attVars, mapVars, rwVars>>

\* ensure_dir(page_dir_abs)
RunEnsureDir ==
    /\ runPc = "dirs"
    /\ \E ok \in BOOLEAN :
          IF ok
          THEN /\ runDirs' = MakeDirs(runDirs, Dirname(CurMd))
               /\ StepTo("attachments")
          ELSE /\ PageFails
               /\ UNCHANGED runDirs
    /\ UNCHANGED <<runPages, runMap, runPypandoc, runSuccess, runFiles>>
    /\ UNCHANGED <<sanVars, attVars, mapVars, rwVars>>

\* fetch_attachments(pid) and the download of the page's attachment "f":
\* there is none (or the listing failed), it is stored, download_attachment
\* returns None, or an error gets out (r.json(), ensure_dir).
RunAttachments ==
    /\ runPc = "attachments"
    /\ \E what \in {"none", "stored", "skipped", "error"} :
          /\ IF what = "error" THEN PageFails ELSE StepTo("rewrite")
          /\ runDirs' = IF what \in {"stored", "skipped"}
                        THEN MakeDirs(runDirs, AttAbsPath(runMap, CurId))
                        ELSE runDirs
          /\ runFiles' = IF what = "stored"
                         THEN Put(runFiles, PathJoin(AttAbsPath(runMap, CurId), <<"f">>),
                                  "attachment")
                         ELSE runFiles
    /\ UNCHANGED <<runPages, runMap, runPypandoc, runSuccess>>
    /\ UNCHANGED <<sanVars, attVars, mapVars, rwVars>>

\* rewrite_content(storage, pid, id_to_relpath, att_rel_dir)
RunRewrite ==
    /\ runPc = "rewrite"
    /\ \E ok \in BOOLEAN : IF ok THEN StepTo("conv_tmp") ELSE PageFails
    /\ UNCHANGED <<runPages, runMap, runPypandoc, runSuccess, runDirs, runFiles>>
    /\ UNCHANGED <<sanVars, attVars, mapVars, rwVars>>

\* convert_html_to_markdown, lines 167-170: the temporary file is created
\* and written; the write may break off.
ConvWriteTmp ==
    /\ runPc = "conv_tmp"
    /\ \E what \in {"ok", "mkdir_error", "write_error"} :
          /\ IF what = "ok" THEN StepTo("conv_pandoc") ELSE PageFails
          /\ runFiles' = IF what = "ok" THEN Put(runFiles, TmpPath(CurMd), "html")
                         ELSE IF what = "write_error"
                         THEN Put(runFiles, TmpPath(CurMd), "partial")
                         ELSE runFiles
    /\ runSuccess' = FALSE
    /\ UNCHANGED <<runPages, runMap, runPypandoc, runDirs>>
    /\ UNCHANGED <<sanVars, attVars, mapVars, rwVars>>

\* Lines 173-185, the system pandoc: it converts, it fails or is missing
\* (CalledProcessError, FileNotFoundError: caught), or subprocess.run raises
\* something else (not caught here).
ConvPandoc ==
    /\ runPc = "conv_pandoc"
    /\ \E what \in {"ok", "failed", "missing", "other_error"} :
          /\ IF what = "other_error" THEN PageFails
             ELSE IF what = "ok" THEN StepTo("conv_check")
             ELSE IF runPypandoc THEN StepTo("conv_pypandoc")
             ELSE StepTo("conv_check")
          /\ runSuccess' = (what = "ok")
          /\ runFiles' = IF what = "ok" THEN Put(runFiles, CurMd, "markdown")
                         ELSE runFiles
    /\ UNCHANGED <<runPages, runMap, runPypandoc, runDirs>>
    /\ UNCHANGED <<sanVars, attVars, mapVars, rwVars>>

\* Lines 180-185, pypandoc: any exception is caught and logged.
ConvPypandoc ==
    /\ runPc = "conv_pypandoc"
    /\ \E ok \in BOOLEAN :
          /\ runSuccess' = ok
          /\ runFiles' = IF ok THEN Put(runFiles, CurMd, "markdown") ELSE runFiles
    /\ StepTo("conv_check")
    /\ UNCHANGED <<runPages, runMap, runPypandoc, runDirs>>
    /\ UNCHANGED <<sanVars, attVars, mapVars, rwVars>>

\* Lines 187-191, the strip-tags fallback: the output file cannot be opened,
\* or the write breaks off, or it is written.
ConvFallback ==
    /\ runPc = "conv_check"
    /\ ~runSuccess
    /\ \E what \in {"ok", "open_error", "write_error"} :
          /\ IF what = "ok" THEN StepTo("conv_cleanup") ELSE PageFails
          /\ runFiles' = IF what = "ok" THEN Put(runFiles, CurMd, "plain")
                         ELSE IF what = "write_error" THEN Put(runFiles, CurMd, "partial")
                         ELSE runFiles
    /\ UNCHANGED <<runPages, runMap, runPypandoc, runSuccess, runDirs>>
    /\ UNCHANGED <<sanVars, attVars, mapVars, rwVars>>

\* Line 187, success: no fallback.
ConvConverted ==
    /\ runPc = "conv_check"
    /\ runSuccess
    /\ StepTo("conv_cleanup")
    /\ UNCHANGED <<runPages, runMap, runPypandoc, runSuccess, runDirs, runFiles>>
    /\ UNCHANGED <<sanVars, attVars, mapVars, rwVars>>

\* Lines 193-194: the temporary file is removed.
ConvCleanup ==
    /\ runPc = "conv_cleanup"
    /\ runFiles' = IF Exists(runFiles, TmpPath(CurMd)) THEN Remove(runFiles, TmpPath(CurMd))
                   ELSE runFiles
    /\ StepTo("front_matter")
    /\ UNCHANGED <<runPages, runMap, runPypandoc, runSuccess, runDirs>>
    /\ UNCHANGED <<sanVars, attVars, mapVars, rwVars>>

\* add_front_matter(abs_md_path, meta), then the loop moves on: the prelude
\* is written in front of the content, the file cannot be opened or read, or
\* the write breaks off.
RunFrontMatter ==
    /\ runPc = "front_matter"
    /\ \E what \in {"ok", "open_error", "write_error"} :
          /\ IF what = "ok"
             THEN /\ Goto(NextPage(runIdx, runPages))
                  /\ UNCHANGED runFailed
             ELSE PageFails
          /\ runFiles' = IF what = "ok" THEN Put(runFiles, CurMd, "final")
                         ELSE IF what = "write_error" THEN Put(runFiles, CurMd, "partial")
                         ELSE runFiles
    /\ UNCHANGED <<runPages, runMap, runPypandoc, runSuccess, runDirs>>
    /\ UNCHANGED <<sanVars, attVars, mapVars, rwVars>>

(***************************************************************************)
(* Specification SpecRun: run over a listing.                              *)
(***************************************************************************)

\* Number of pages of the listing run exports.
NumRunPages == 2

\* The listings run exports: pages that all have the title "a", either all
\* at top level (the path map tells them apart by their ids) or the later
\* ones below the first.
RunAncestors == {<<>>, <<<<"a">>>>}

RunListings ==
    {[i \in 1..NumRunPages |->
        [id |-> PageIds[i], title |-> <<"a">>,
         ancestors |-> IF i = 1 THEN <<>> ELSE below]] : below \in RunAncestors}

InitRun ==
    /\ runPc = "start"
    /\ runIdx = 0
    /\ runPages \in RunListings
    /\ runMap = <<>>
    /\ runPypandoc \in BOOLEAN
    /\ runSuccess = FALSE
    /\ runDirs = {<<>>, Place(<<>>)}
    /\ runFiles = <<>>
    /\ runAttempted = <<>>
    /\ runFailed = {}
    /\ SanIdle
    /\ AttIdle
    /\ MapIdle
    /\ RwIdle

NextRun ==
    \/ RunFetchListing
    \/ RunFetchDetails
    \/ RunEnsureDir
    \/ RunAttachments
    \/ RunRewrite
    \/ ConvWriteTmp
    \/ ConvPandoc
    \/ ConvPypandoc
    \/ ConvFallback
    \/ ConvConverted
    \/ ConvCleanup
    \/ RunFrontMatter

SpecRun == InitRun /\ [][NextRun]_vars

\* The ids of the listing, in listing order.
ListingIds == [i \in 1..Len(runPages) |-> runPages[i].id]

\* C6: a failure of one page never leaves the loop: the pages are attempted
\* in listing order, run is never stuck before its end, and at its end every
\* page of the listing has been attempted.
C6_FailureIsolated ==
    /\ runAttempted = SubSeq(ListingIds, 1, Len(runAttempted))
    /\ runFailed \subseteq {runAttempted[i] : i \in 1..Len(runAttempted)}
    /\ runPc \notin {"done", "aborted"} => ENABLED NextRun
    /\ runPc = "done" => runAttempted = ListingIds

\* run came to its end although the first page failed, and the second page
\* was exported.
C6_Witness ==
    /\ runPc = "done"
    /\ runPages[1].id \in runFailed
    /\ Exists(runFiles, MdPath(runMap, runPages[2].id))
    /\ runFiles[MdPath(runMap, runPages[2].id)] = "final"

\* C7: a page whose processing failed has no file at its output path.
C7_NoFileForFailedPage ==
    \A i \in 1..Len(runPages) :
        runPages[i].id \in runFailed => ~Exists(runFiles, MdPath(runMap, runPages[i].id))

\* C9: outside convert_html_to_markdown no temporary input file exists: the
\* only one there can be is that of the page being converted.
C9_NoTemporaryFileLeft ==
    \A i \in 1..Len(runPages) :
        Exists(runFiles, TmpPath(MdPath(runMap, runPages[i].id))) =>
            /\ i = runIdx
            /\ runPc \in {"conv_pandoc", "conv_pypandoc", "conv_check", "conv_cleanup"}

====
